---- MODULE Spec2Model ----
(***************************************************************************)
(* Model of arb_tracker.py: the ARB all-time-low (ATL) tracker.            *)
(*                                                                         *)
(* One process (main) polls a price, compares it with the in-memory ATL,   *)
(* notifies and saves on a new low, and sleeps.  The state file survives   *)
(* the process; the process can be terminated abruptly at any position and *)
(* be started again by the external scheduler.                             *)
(*                                                                         *)
(* Prices are positive integers (ticks of the quote currency); time is a   *)
(* wall clock in ticks of CHECK_INTERVAL.                                  *)
(***************************************************************************)
EXTENDS Integers, Sequences, FiniteSets, TLC

\* ---- bounds of the model ------------------------------------------------
MaxPrice == 3
MaxTime == 2
MaxLatency == 1

\* ---- configuration (lines 23-24), in ticks of the wall clock ---------------
\* RUN_DURATION and CHECK_INTERVAL come from the environment; the run lasts a
\* whole number of intervals (295 by default, 2 here).
RUN_DURATION == 2
CHECK_INTERVAL == 1

\* Python's None (a price is never negative)
None == -1

Prices == 1..MaxPrice
Times == 0..MaxTime

VARIABLES
  TELEGRAM_BOT_TOKEN,  \* TRUE iff the environment variable is set (non-empty)
  TELEGRAM_CHAT_ID,    \* TRUE iff the environment variable is set (non-empty)
  file,                \* ATL_DATA_FILE: [exists, content], content a sequence of JSON chunks
  now,                 \* wall clock: time.time() / datetime.utcnow()
  pc,                  \* position of the process in main()
  atl_price,           \* main's local atl_price
  current_price,       \* main's local current_price
  start_time,          \* main's local start_time
  loop_start,          \* main's local loop_start
  checks,              \* main's local counters
  errors,
  new_atls,
  data,                \* save_atl_data's local data (the record being written)
  exc,                 \* the uncaught exception that ended the process, or "none"
  exitCode,            \* process exit status, None while it has none
  diedAt,              \* position at which the process was killed or interrupted
  \* -- history variables (observations, not read by the program) --
  before,              \* file as it was when the last save_atl_data opened it
  loaded,              \* atl_price loaded at startup of this run
  fetched,             \* set of prices fetched successfully in this run
  written,             \* sequence of every atl_price written by a completed save, over all runs
  lastSaved,           \* price of the last completed save of this run, or None
  loadCalls,           \* calls of load_atl_data in this run
  fetchCalls,          \* calls of get_arb_price in this run
  sendCalls,           \* calls of send_telegram_message in this run
  saveCalls,           \* calls of save_atl_data in this run
  msg,                 \* the last message passed to send_telegram_message in this run
  sendOk,              \* result of the last send_telegram_message of this cycle: "none", "ok", "failed"
  fetchFails,          \* calls of get_arb_price in this run that returned None
  announced            \* lowest price of a delivered notification, over all runs, or None

vars == <<TELEGRAM_BOT_TOKEN, TELEGRAM_CHAT_ID, file, now, pc, atl_price,
          current_price, start_time, loop_start, checks, errors, new_atls,
          data, exc, exitCode, diedAt, before, loaded, fetched, written,
          lastSaved, loadCalls, fetchCalls, sendCalls, saveCalls, msg, sendOk,
          fetchFails, announced>>

config == <<TELEGRAM_BOT_TOKEN, TELEGRAM_CHAT_ID>>
counters == <<checks, errors, new_atls>>
calls == <<loadCalls, fetchCalls, sendCalls, saveCalls>>

\* ---- the state file as JSON text ------------------------------------------
\* A chunk of JSON text: json.dump writes the encoding chunk by chunk.
Tok(t, v) == [t |-> t, v |-> v]

NoData == [atl_price |-> None, atl_timestamp |-> None]
NoMsg == [kind |-> "none", price |-> None, previous |-> None, drop |-> None]

\* variant: the timestamp is not written
json_dump_no_timestamp(d) ==
  << Tok("{", 0), Tok("atl_price", d.atl_price),
     Tok("atl_timestamp", None), Tok("}", 0) >>

\* json.dump(data, f): the chunks of the object, in order
json_dump(d) ==
  << Tok("{", 0), Tok("atl_price", d.atl_price),
     Tok("atl_timestamp", d.atl_timestamp), Tok("}", 0) >>

\* the text of a JSON array: valid JSON that is not an object
ListText == << Tok("[", 0), Tok("]", 0) >>

IsObjectText(c) ==
  /\ Len(c) = 4
  /\ c[1] = Tok("{", 0)
  /\ c[2].t = "atl_price"
  /\ c[3].t = "atl_timestamp"
  /\ c[4] = Tok("}", 0)

\* json.load(f): a dict, a list, or JSONDecodeError
json_load(c) ==
  IF IsObjectText(c)
    THEN [kind |-> "dict", atl_price |-> c[2].v, atl_timestamp |-> c[3].v]
    ELSE IF c = ListText
      THEN [kind |-> "list", atl_price |-> None, atl_timestamp |-> None]
      ELSE [kind |-> "JSONDecodeError", atl_price |-> None, atl_timestamp |-> None]

\* load_atl_data(): ioerr is whether open/read raises IOError
load_atl_data(f, ioerr) ==
  IF f.exists /\ ~ioerr /\ json_load(f.content).kind # "JSONDecodeError"
    THEN json_load(f.content)
    ELSE [kind |-> "dict", atl_price |-> None, atl_timestamp |-> None]

\* the atl_price a fresh start would read from the file (no I/O error)
StoredPrice(f) ==
  IF load_atl_data(f, FALSE).kind = "dict" THEN load_atl_data(f, FALSE).atl_price ELSE None

Missing == [exists |-> FALSE, content |-> <<>>]
FileOf(c) == [exists |-> TRUE, content |-> c]
RecordFile(p, t) == FileOf(json_dump([atl_price |-> p, atl_timestamp |-> t]))

\* what the file may hold before the first modelled run
InitFiles ==
  {Missing, FileOf(<<>>), FileOf(ListText)} \cup {RecordFile(p, 0) : p \in Prices}

\* ---- pure functions of the program ----------------------------------------
\* variant: the recipient id is not checked
validate_config_token_only(token, chat) ==
  IF ~token THEN FALSE
  ELSE TRUE

\* validate_config()
validate_config(token, chat) ==
  IF ~token THEN FALSE
  ELSE IF ~chat THEN FALSE
  ELSE TRUE

\* variant: the comparison is the wrong way round
is_new_atl_greater(cur, atl) == atl = None \/ cur > atl

\* variant: equality counts as a new low
is_new_atl_or_equal(cur, atl) == atl = None \/ cur <= atl

\* check_price's decision, given the fetched price (not None) and the ATL
is_new_atl(cur, atl) == atl = None \/ cur < atl

\* check_price(atl_price) once get_arb_price() has returned cur
check_price(cur, atl) ==
  IF cur = None THEN <<None, FALSE>>
  ELSE IF is_new_atl(cur, atl) THEN <<cur, TRUE>>
  ELSE <<cur, FALSE>>

\* variant: the difference is taken the wrong way round
drop_percent_negated(cur, prev) == ((cur - prev) * 100) \div prev

\* drop_percent of notify_new_atl, rounded down to a whole percent
drop_percent(cur, prev) == ((prev - cur) * 100) \div prev

\* variant: the first run is announced like any other new low
notify_message_always_low(cur, prev) ==
  [kind |-> "new_low", price |-> cur, previous |-> prev, drop |-> 0]

\* the message notify_new_atl builds
notify_message(cur, prev) ==
  IF prev = None
    THEN [kind |-> "initialized", price |-> cur, previous |-> None, drop |-> None]
    ELSE [kind |-> "new_low", price |-> cur, previous |-> prev,
          drop |-> drop_percent(cur, prev)]

\* sleep_time of main
sleep_time(elapsed) == IF CHECK_INTERVAL - elapsed > 0 THEN CHECK_INTERVAL - elapsed ELSE 0

Running == {"loop", "notify", "save", "writing", "sleep"}
Ended == {"exit1", "done", "crashed", "killed", "interrupted"}

TypeOK ==
  /\ TELEGRAM_BOT_TOKEN \in BOOLEAN /\ TELEGRAM_CHAT_ID \in BOOLEAN
  /\ file.exists \in BOOLEAN
  /\ now \in Times
  /\ pc \in {"init"} \cup Running \cup Ended
  /\ atl_price \in Prices \cup {None}
  /\ current_price \in Prices \cup {None}

Init ==
  /\ TELEGRAM_BOT_TOKEN \in BOOLEAN
  /\ TELEGRAM_CHAT_ID \in BOOLEAN
  /\ file \in InitFiles
  /\ now = 0
  /\ pc = "init"
  /\ atl_price = None /\ current_price = None
  /\ start_time = 0 /\ loop_start = 0
  /\ checks = 0 /\ errors = 0 /\ new_atls = 0
  /\ data = NoData
  /\ exc = "none" /\ exitCode = None /\ diedAt = "none"
  /\ before = file
  /\ loaded = None /\ fetched = {}
  /\ written = IF StoredPrice(file) = None THEN <<>> ELSE <<StoredPrice(file)>>
  /\ lastSaved = None
  /\ loadCalls = 0 /\ fetchCalls = 0 /\ sendCalls = 0 /\ saveCalls = 0
  /\ msg = NoMsg /\ sendOk = "none"
  /\ fetchFails = 0 /\ announced = None

\* ---- main(): startup (lines 145-165) ---------------------------------------
\* validate_config() fails: sys.exit(1) before anything else
ConfigExit ==
  /\ pc = "init"
  /\ ~validate_config(TELEGRAM_BOT_TOKEN, TELEGRAM_CHAT_ID)
  /\ pc' = "exit1"
  /\ exitCode' = 1
  /\ UNCHANGED <<config, file, now, atl_price, current_price, start_time,
                 loop_start, counters, data, exc, diedAt, before, loaded,
                 fetched, written, lastSaved, calls, msg, sendOk, fetchFails, announced>>

\* load_atl_data(), atl_data.get("atl_price"), start_time and the counters
Startup ==
  /\ pc = "init"
  /\ validate_config(TELEGRAM_BOT_TOKEN, TELEGRAM_CHAT_ID)
  /\ \E ioerr \in BOOLEAN :
       LET atl_data == load_atl_data(file, ioerr) IN
         /\ loadCalls' = loadCalls + 1
         /\ IF atl_data.kind = "dict"
              THEN /\ atl_price' = atl_data.atl_price
                   /\ loaded' = atl_data.atl_price
                   /\ start_time' = now
                   /\ pc' = "loop"
                   /\ UNCHANGED <<exc, exitCode>>
              ELSE \* a list has no .get: AttributeError, uncaught
                   /\ pc' = "crashed"
                   /\ exc' = "AttributeError"
                   /\ exitCode' = 1
                   /\ UNCHANGED <<atl_price, loaded, start_time>>
  /\ checks' = 0 /\ errors' = 0 /\ new_atls' = 0
  /\ UNCHANGED <<config, file, now, current_price, loop_start, data, diedAt,
                 before, fetched, written, lastSaved, fetchCalls, sendCalls,
                 saveCalls, msg, sendOk, fetchFails, announced>>

\* variant: a failed fetch is not told apart from an unchanged price
cycle_outcome_no_error_branch(res) ==
  IF res[2]
    THEN [errors |-> 0, new_atls |-> 1, pc |-> "notify"]
    ELSE [errors |-> 0, new_atls |-> 0, pc |-> "sleep"]

\* lines 173-181: what main does with check_price's result: the increments
\* of errors and new_atls, and where it continues
cycle_outcome(res) ==
  IF res[1] = None
    THEN [errors |-> 1, new_atls |-> 0, pc |-> "sleep"]
    ELSE IF res[2]
      THEN [errors |-> 0, new_atls |-> 1, pc |-> "notify"]
      ELSE [errors |-> 0, new_atls |-> 0, pc |-> "sleep"]

\* ---- main(): one pass of the while body up to the decision (lines 167-181) --
\* r is what get_arb_price() returns, d the time the request took
Cycle ==
  /\ pc = "loop"
  /\ (now - start_time) < RUN_DURATION
  /\ \E r \in Prices \cup {None}, d \in 0..MaxLatency :
       LET res == check_price(r, atl_price) IN
         /\ now + d <= MaxTime
         /\ now' = now + d
         /\ loop_start' = now
         /\ checks' = checks + 1
         /\ fetchCalls' = fetchCalls + 1
         /\ current_price' = res[1]
         /\ fetched' = IF r = None THEN fetched ELSE fetched \cup {r}
         /\ fetchFails' = IF r = None THEN fetchFails + 1 ELSE fetchFails
         /\ sendOk' = "none"
         /\ errors' = errors + cycle_outcome(res).errors
         /\ new_atls' = new_atls + cycle_outcome(res).new_atls
         /\ pc' = cycle_outcome(res).pc
  /\ UNCHANGED <<config, file, atl_price, start_time, data, exc, exitCode,
                 diedAt, before, loaded, written, lastSaved, loadCalls,
                 sendCalls, saveCalls, msg, announced>>

\* variant: the save is skipped when the notification failed
after_notify_save_if_sent(ok) == IF ok THEN "save" ELSE "sleep"

\* where main goes after notify_new_atl returned (lines 182-184): the
\* outcome of the notification is not consulted
after_notify(ok) == "save"

\* notify_new_atl(current_price, atl_price); atl_price = current_price
\* (lines 182-183).  ok is what send_telegram_message returns.
Notify ==
  /\ pc = "notify"
  /\ \E ok \in BOOLEAN :
       /\ msg' = notify_message(current_price, atl_price)
       /\ sendCalls' = sendCalls + 1
       /\ sendOk' = IF ok THEN "ok" ELSE "failed"
       /\ announced' = IF ok /\ (announced = None \/ current_price < announced)
                          THEN current_price ELSE announced
       /\ pc' = after_notify(ok)
       /\ atl_price' = IF after_notify(ok) = "save" THEN current_price ELSE atl_price
  /\ UNCHANGED <<config, file, now, current_price, start_time, loop_start,
                 counters, data, exc, exitCode, diedAt, before, loaded,
                 fetched, written, lastSaved, loadCalls, fetchCalls, saveCalls, fetchFails>>

\* variant: the error of the write is caught and the loop goes on
on_save_error_continue == "sleep"

\* where main is after save_atl_data raised OSError (lines 61-69, 184): no
\* try/except encloses the call, so the exception ends the process
on_save_error == "crashed"

\* save_atl_data(atl_price), lines 63-67: build data, open(ATL_DATA_FILE, "w").
\* A successful open truncates the file; a failing one raises OSError, which
\* nothing catches.
SaveOpen ==
  /\ pc = "save"
  /\ saveCalls' = saveCalls + 1
  /\ data' = [atl_price |-> atl_price, atl_timestamp |-> now]
  /\ before' = file
  /\ \E opened \in BOOLEAN :
       IF opened
         THEN /\ file' = FileOf(<<>>)
              /\ pc' = "writing"
              /\ UNCHANGED <<exc, exitCode>>
         ELSE /\ file' = file
              /\ pc' = on_save_error
              /\ exc' = "OSError"
              /\ exitCode' = 1
  /\ UNCHANGED <<config, now, atl_price, current_price, start_time, loop_start,
                 counters, diedAt, loaded, fetched, written, lastSaved,
                 loadCalls, fetchCalls, sendCalls, msg, sendOk, fetchFails, announced>>

\* json.dump(data, f), line 68: the next chunk reaches the file; after the
\* last one the file is closed and save_atl_data returns.  A failing write
\* raises OSError, which nothing catches.
SaveWrite ==
  /\ pc = "writing"
  /\ \E ok \in BOOLEAN :
       IF ok
         THEN LET c == Append(file.content, json_dump(data)[Len(file.content) + 1]) IN
                /\ file' = FileOf(c)
                /\ IF Len(c) = Len(json_dump(data))
                     THEN /\ pc' = "sleep"
                          /\ written' = Append(written, data.atl_price)
                          /\ lastSaved' = data.atl_price
                     ELSE /\ pc' = "writing"
                          /\ UNCHANGED <<written, lastSaved>>
                /\ UNCHANGED <<exc, exitCode>>
         ELSE /\ pc' = on_save_error
              /\ exc' = "OSError"
              /\ exitCode' = 1
              /\ UNCHANGED <<file, written, lastSaved>>
  /\ UNCHANGED <<config, now, atl_price, current_price, start_time, loop_start,
                 counters, data, diedAt, before, loaded, fetched, calls, msg,
                 sendOk, fetchFails, announced>>

\* lines 187-190: sleep for the rest of the interval
Sleep ==
  /\ pc = "sleep"
  /\ now + sleep_time(now - loop_start) <= MaxTime
  /\ now' = now + sleep_time(now - loop_start)
  /\ pc' = "loop"
  /\ UNCHANGED <<config, file, atl_price, current_price, start_time,
                 loop_start, counters, data, exc, exitCode, diedAt, before,
                 loaded, fetched, written, lastSaved, calls, msg, sendOk, fetchFails, announced>>

\* lines 167, 192-198: the duration has elapsed; print the summary, return
Summary ==
  /\ pc = "loop"
  /\ ~((now - start_time) < RUN_DURATION)
  /\ pc' = "done"
  /\ exitCode' = 0
  /\ UNCHANGED <<config, file, now, atl_price, current_price, start_time,
                 loop_start, counters, data, exc, diedAt, before, loaded,
                 fetched, written, lastSaved, calls, msg, sendOk, fetchFails, announced>>

\* ---- the environment ------------------------------------------------------
\* abrupt termination of the process (SIGKILL, power loss, runner timeout)
Kill ==
  /\ pc \in Running
  /\ diedAt' = pc
  /\ pc' = "killed"
  /\ exitCode' = 137
  /\ UNCHANGED <<config, file, now, atl_price, current_price, start_time,
                 loop_start, counters, data, exc, before, loaded, fetched,
                 written, lastSaved, calls, msg, sendOk, fetchFails, announced>>

\* a shutdown signal (SIGINT, SIGTERM) reaches the process: main installs no
\* handler and catches no KeyboardInterrupt (lines 140-198, 201-202), so the
\* process ends where it is, with the status of the signal
Interrupt ==
  /\ pc \in Running
  /\ diedAt' = pc
  /\ pc' = "interrupted"
  /\ exc' = "KeyboardInterrupt"
  /\ exitCode' = 130
  /\ UNCHANGED <<config, file, now, atl_price, current_price, start_time,
                 loop_start, counters, data, before, loaded, fetched,
                 written, lastSaved, calls, msg, sendOk, fetchFails, announced>>

\* the external scheduler invokes the program again, later, with the same
\* environment and the file as the last run left it
Restart ==
  /\ pc \in Ended
  /\ now < MaxTime
  /\ now' = now + 1
  /\ pc' = "init"
  /\ atl_price' = None /\ current_price' = None
  /\ start_time' = 0 /\ loop_start' = 0
  /\ checks' = 0 /\ errors' = 0 /\ new_atls' = 0
  /\ data' = NoData
  /\ exc' = "none" /\ exitCode' = None /\ diedAt' = "none"
  /\ loaded' = None /\ fetched' = {} /\ lastSaved' = None
  /\ loadCalls' = 0 /\ fetchCalls' = 0 /\ sendCalls' = 0 /\ saveCalls' = 0
  /\ msg' = NoMsg /\ sendOk' = "none"
  /\ fetchFails' = 0
  /\ UNCHANGED <<config, file, before, written, announced>>

Next ==
  \/ ConfigExit
  \/ Startup
  \/ Cycle
  \/ Notify
  \/ SaveOpen
  \/ SaveWrite
  \/ Sleep
  \/ Summary
  \/ Kill
  \/ Interrupt
  \/ Restart

Spec == Init /\ [][Next]_vars

\* ==== properties ===========================================================
MinOf(S) == CHOOSE m \in S : \A x \in S : m <= x

\* the ATL loaded at startup (if any) and the prices fetched in this run
Seen == fetched \cup (IF loaded = None THEN {} ELSE {loaded})

\* positions between two cycles, and after the last one
Boundary == {"loop", "sleep", "done"}

\* the step of Cycle
CycleStep == pc = "loop" /\ fetchCalls' = fetchCalls + 1

\* C1: between cycles, once a price has been fetched, the ATL held by main
\* and the price of the last save both equal the minimum of the ATL loaded at
\* startup and the prices fetched so far (no save in this run: the loaded ATL
\* is that minimum).
C1_AtlIsMinimumSeen ==
  (pc \in Boundary /\ fetched # {}) =>
     /\ atl_price = MinOf(Seen)
     /\ \/ lastSaved = MinOf(Seen)
        \/ lastSaved = None /\ loaded = MinOf(Seen)

C1_Witness ==
  /\ pc = "done"
  /\ loaded # None
  /\ errors = 0 /\ checks = 2
  /\ Cardinality(fetched) = 2
  /\ atl_price < loaded
  /\ lastSaved = atl_price

\* C2 (as claimed): over all runs, every atl_price written is less than or
\* equal to every atl_price written before it.
C2_PersistedNeverIncreases ==
  \A i, j \in 1..Len(written) : i < j => written[j] <= written[i]

\* C3: a cycle that fetches a price greater than or equal to the established
\* ATL goes straight to the sleep: it leaves the ATL, new_atls and the file
\* unchanged and calls neither save_atl_data nor send_telegram_message, every
\* time it happens.
C3_NoChangeCycle ==
  [][ /\ (CycleStep /\ atl_price # None /\ current_price' # None
             /\ current_price' >= atl_price)
          => /\ pc' = "sleep"
             /\ atl_price' = atl_price
             /\ new_atls' = new_atls
             /\ file' = file
             /\ saveCalls' = saveCalls /\ sendCalls' = sendCalls
      /\ (pc = "sleep" /\ pc' = "loop")
          => /\ atl_price' = atl_price
             /\ new_atls' = new_atls
             /\ file' = file
             /\ saveCalls' = saveCalls /\ sendCalls' = sendCalls ]_vars

\* two cycles in a row fetched the price the ATL already had
C3_Witness ==
  /\ pc = "sleep"
  /\ checks = 2 /\ errors = 0 /\ new_atls = 0
  /\ loaded # None
  /\ fetched = {loaded}
  /\ atl_price = loaded
  /\ saveCalls = 0 /\ sendCalls = 0

\* the record save_atl_data is writing, as load_atl_data would return it
NewRecord == [kind |-> "dict", atl_price |-> data.atl_price,
              atl_timestamp |-> data.atl_timestamp]

\* C4 (as claimed): after an abrupt termination inside save_atl_data the next
\* load_atl_data returns what it returned before the save, or the new record.
\* (A file that held no record before the save has nothing to preserve.)
C4_SaveIsAllOrNothing ==
  (pc = "killed" /\ diedAt = "writing" /\ StoredPrice(before) # None) =>
     load_atl_data(file, FALSE) \in {load_atl_data(before, FALSE), NewRecord}

\* C5: in a new-low cycle whose notification failed, main still sets the ATL
\* to the new price and calls save_atl_data with it; once the save has
\* returned, the file holds the new price.
C5_FailedNotifyStillSaves ==
  sendOk = "failed" =>
     /\ pc # "notify"
     /\ (pc \in {"save", "writing"} \cup Boundary) => atl_price = current_price
     /\ (pc \in {"writing"} \cup Boundary) =>
           (saveCalls = new_atls /\ data.atl_price = current_price)
     /\ (pc \in Boundary) =>
           (StoredPrice(file) = current_price /\ lastSaved = current_price)

C5_Witness ==
  /\ sendOk = "failed"
  /\ pc = "sleep"
  /\ loaded # None
  /\ current_price < loaded
  /\ StoredPrice(file) = current_price

\* C6 (as claimed): a failed write in save_atl_data does not end the process.
C6_PersistErrorNotFatal ==
  ~(pc = "crashed" /\ exc = "OSError")

\* the step of a cycle whose fetch failed
FetchFailStep == CycleStep /\ current_price' = None

\* what a failed-fetch cycle leaves alone
FetchFailFrame ==
  /\ pc' = "sleep"
  /\ atl_price' = atl_price
  /\ file' = file
  /\ saveCalls' = saveCalls /\ sendCalls' = sendCalls
  /\ errors' = errors + 1
  /\ new_atls' = new_atls

\* C7 (as claimed): a cycle whose fetch fails changes no counter of the run
\* but errors.
C7_OnlyErrorCounter ==
  [][FetchFailStep => (FetchFailFrame /\ checks' = checks)]_vars

\* C7 (amended): a cycle whose fetch fails leaves the ATL and the file
\* unchanged, calls neither save_atl_data nor send_telegram_message, and
\* increments errors and, as every cycle does, checks; new_atls is unchanged.
C7_FailedFetchCycle ==
  [][FetchFailStep => (FetchFailFrame /\ checks' = checks + 1)]_vars

C7_Witness ==
  /\ pc = "sleep"
  /\ current_price = None
  /\ errors = 1 /\ checks = 2 /\ new_atls = 1
  /\ atl_price # None

\* C8: when startup found no record, the first price fetched becomes the ATL
\* in memory and, once saved, in the file, and the one notification built for
\* it is the initialization message, which has no previous ATL.
C8_FirstPriceInitializes ==
  (pc \in Running \cup {"done"} /\ loaded = None /\ Cardinality(fetched) = 1) =>
     LET p == MinOf(fetched) IN
       /\ new_atls = 1
       /\ pc = "notify" => (sendCalls = 0 /\ atl_price = None)
       /\ pc # "notify" =>
            /\ sendCalls = 1
            /\ msg = [kind |-> "initialized", price |-> p, previous |-> None,
                      drop |-> None]
            /\ atl_price = p
       /\ pc \in Boundary => (StoredPrice(file) = p /\ lastSaved = p)

C8_Witness ==
  /\ pc = "sleep"
  /\ loaded = None
  /\ ~before.exists
  /\ errors = 1 /\ checks = 2
  /\ fetched = {2}
  /\ msg.kind = "initialized"
  /\ StoredPrice(file) = 2

\* the file holds no record: it is missing or its text is not that of a record
NoRecord(f) == ~f.exists \/ ~IsObjectText(f.content)

\* C9 (as claimed): whenever the file is missing or holds anything but a
\* record, startup ends at the loop with no ATL, and the process has not failed.
C9_CorruptLoadsAsAbsent ==
  (loadCalls = 1 /\ pc \in {"loop", "crashed"} /\ checks = 0 /\ NoRecord(file)) =>
     (pc = "loop" /\ atl_price = None /\ exc = "none")

\* C10: with the bot token or the recipient id missing, the process only
\* ever exits with a non-zero code: nothing is loaded, fetched, sent or saved,
\* no cycle is counted and the file stays as it was.
C10_MissingConfigExits ==
  (~TELEGRAM_BOT_TOKEN \/ ~TELEGRAM_CHAT_ID) =>
     /\ pc \in {"init", "exit1"}
     /\ pc = "exit1" => (exitCode # None /\ exitCode # 0)
     /\ loadCalls = 0 /\ fetchCalls = 0 /\ sendCalls = 0 /\ saveCalls = 0
     /\ checks = 0
     /\ file = before

C10_Witness ==
  /\ pc = "exit1"
  /\ TELEGRAM_BOT_TOKEN /\ ~TELEGRAM_CHAT_ID
  /\ StoredPrice(file) # None

\* C11 (as claimed): a run that entered the loop and was neither killed nor
\* interrupted ends by the summary: normally, with exit code 0, and only once
\* RUN_DURATION has elapsed.
C11_RunEndsWithSummary ==
  (pc \in {"done", "crashed"} /\ checks >= 1) =>
     /\ pc = "done"
     /\ exitCode = 0
     /\ exc = "none"
     /\ now - start_time >= RUN_DURATION

\* C12 (as claimed): a shutdown signal that arrives during the sleep ends the
\* process gracefully: no uncaught exception, exit code 0.
C12_GracefulInterrupt ==
  (pc = "interrupted" /\ diedAt = "sleep") =>
     (exitCode = 0 /\ exc = "none")

\* C13: when save_atl_data(p) has returned, load_atl_data returns the record
\* with atl_price p and the timestamp of the save, and the file holds that one
\* record and nothing else, whatever it held before.
C13_SaveLoadRoundTrip ==
  (pc = "sleep" /\ sendOk # "none") =>
     /\ load_atl_data(file, FALSE) = NewRecord
     /\ load_atl_data(file, FALSE).atl_price = atl_price
     /\ load_atl_data(file, FALSE).atl_timestamp \in Times
     /\ Len(file.content) = 4
     /\ \A i \in 1..Len(file.content) :
          file.content[i].t = "atl_price" => file.content[i].v = atl_price

\* the file held a record with another price before the save
C13_Witness ==
  /\ pc = "sleep" /\ sendOk # "none"
  /\ StoredPrice(before) # None
  /\ StoredPrice(before) # atl_price
  /\ StoredPrice(file) = atl_price
  /\ data.atl_timestamp > 0

\* C14: the message of a new low over an established ATL has the ATL held
\* just before the update as previous and the fetched price as price, with
\* price < previous and 0 < (previous - price) / previous * 100 < 100; its
\* drop is that percentage (in whole percent), and 100 -> 90 gives 10.
C14_NewLowMessage ==
  [][(pc = "notify" /\ atl_price # None /\ sendCalls' = sendCalls + 1) =>
       /\ msg'.kind = "new_low"
       /\ msg'.previous = atl_price
       /\ msg'.price = current_price
       /\ atl_price' = current_price
       /\ msg'.price < msg'.previous
       /\ 0 < (msg'.previous - msg'.price) * 100
       /\ (msg'.previous - msg'.price) * 100 < 100 * msg'.previous
       /\ msg'.drop * msg'.previous <= (msg'.previous - msg'.price) * 100
       /\ (msg'.previous - msg'.price) * 100 < (msg'.drop + 1) * msg'.previous
       /\ drop_percent(90, 100) = 10 ]_vars

C14_Witness ==
  /\ pc = "save"
  /\ msg.kind = "new_low"
  /\ msg.previous = 3 /\ msg.price = 2 /\ msg.drop = 33
  /\ atl_price = 2

\* C15 (as claimed): over all runs, a delivered notification is for a price
\* strictly lower than the price of every notification delivered before it.
C15_NeverAnnouncedTwice ==
  [][(pc = "notify" /\ sendOk' = "ok" /\ announced # None) =>
       current_price < announced]_vars

\* C16: between cycles of a run that loaded a record or completed a save, the
\* ATL in memory equals the atl_price in the file.
C16_MemoryEqualsDisk ==
  (pc \in Boundary /\ (loaded # None \/ lastSaved # None)) =>
     (atl_price # None /\ atl_price = StoredPrice(file))

C16_Witness ==
  /\ pc = "loop"
  /\ loaded # None
  /\ lastSaved # None
  /\ atl_price < loaded
  /\ StoredPrice(file) = atl_price

\* C17: between cycles errors is the number of failed fetches, new_atls is
\* the number of notification attempts and of save_atl_data calls of the run,
\* and errors + new_atls <= checks; inside a new-low cycle the one
\* notification attempt comes first and the one save second.
C17_CountersAgree ==
  /\ pc \in Running \cup {"done"} =>
       /\ errors = fetchFails
       /\ checks = fetchCalls
       /\ errors + new_atls <= checks
  /\ pc \in Boundary => (sendCalls = new_atls /\ saveCalls = new_atls)
  /\ pc = "notify" => (sendCalls = new_atls - 1 /\ saveCalls = new_atls - 1)
  /\ pc = "save" => (sendCalls = new_atls /\ saveCalls = new_atls - 1)
  /\ pc = "writing" => (sendCalls = new_atls /\ saveCalls = new_atls)

C17_Witness ==
  /\ pc = "done"
  /\ checks = 2 /\ errors = 1 /\ new_atls = 1
  /\ fetchFails = 1 /\ sendCalls = 1 /\ saveCalls = 1

====
